---- MODULE Spec2Model ----
(***************************************************************************)
(* A model of the ChatSpace reliable transport (src/transport/protocol.py, *)
(* src/transport/connection.py): one connecting endpoint "c" and one       *)
(* listening endpoint "s" exchanging datagrams over a network that may     *)
(* lose, reorder, duplicate and corrupt them.                              *)
(*                                                                         *)
(* Time is counted in milliseconds (1.0 s of the source is 1000 here).     *)
(* A byte string is modelled by the payload it was cut from and the byte   *)
(* range [lo, hi) it covers, so that slicing and concatenation are         *)
(* computed as the code computes them without enumerating bytes.           *)
(***************************************************************************)
EXTENDS Integers, Sequences, FiniteSets, TLC

VARIABLES
    running,          \* endpoint -> self.running
    is_server,        \* endpoint -> self.is_server
    socket,           \* endpoint -> self.socket is not None
    on_new_connection_callback, \* endpoint -> a callback is registered
    connections,      \* endpoint -> peer address -> Connection or None
                      \* (the listening endpoint's table; for the connecting
                      \*  endpoint the one entry is self.client_connection)
    stats,            \* endpoint -> self.stats
    net,              \* the datagrams emitted so far (may be received any
                      \* number of times, in any order, or never)
    clock,            \* time.time(), in ms
    threads,          \* application thread -> its position inside send_msg
    todo,             \* application thread -> payloads it still has to send
    delivered,        \* endpoint -> payloads handed to on_message, in order
    disconnects,      \* endpoint -> number of on_disconnect invocations
    submitted,        \* endpoint -> payloads handed to send_msg, in order
    assigned,         \* endpoint -> <<seq, chunk>> pairs emitted by send_msg
    errors,           \* endpoint -> errors raised to the application
    app,              \* endpoint -> what the application has done so far
    limits            \* the bounds of the specification being checked
                      \* (set by its initial state, never changed)

vars == <<running, is_server, socket, on_new_connection_callback, connections,
          stats, net, clock, threads, todo, delivered, disconnects, submitted,
          assigned, errors, app, limits>>

(***************************************************************************)
(* Bounds of the model.                                                    *)
(***************************************************************************)
MaxRecv == 3        \* intact datagrams the two receive loops process
MaxCorrupt == 1     \* damaged datagrams the two receive loops see
MaxTicks == 1       \* times the clock advances
TickMs == 6000      \* how far the clock advances at once
MaxSeq == 3         \* a SYN is processed only while next_seq is below this
MaxCount == 50      \* statistics counters wrap above this (never reached
                    \* when the receive loops are bounded)
MaxBytes == 100000  \* byte counters wrap above this
TsFieldLen == 40    \* bytes json.dumps adds for "_transport_timestamp"

\* The bounds one specification runs under.
Limits(recv, corrupt, ticks, seq, count, bytes, deliv) ==
    [recv |-> recv, corrupt |-> corrupt, ticks |-> ticks, seq |-> seq,
     count |-> count, bytes |-> bytes, deliv |-> deliv]

\* bounds on the datagrams processed and on the clock only
Bounded(recv, corrupt, ticks) ==
    Limits(recv, corrupt, ticks, MaxCount, MaxCount, MaxBytes, MaxCount)

(***************************************************************************)
(* Protocol constants.                                                     *)
(***************************************************************************)
VERSION == 1
HEADER_SIZE == 20
MAX_PAYLOAD_SIZE == 1024
MAX_WINDOW_SIZE == 10
INITIAL_RTO == 1000
MAX_RTO == 30000
MIN_RTO == 100
FLAG_DATA == 1
FLAG_ACK == 2
FLAG_SYN == 4
FLAG_FIN == 8
FLAG_RST == 16
HANDSHAKE_TIMEOUT == 5000

Endpoints == {"c", "s"}
Peer(e) == IF e = "c" THEN "s" ELSE "c"
\* the value of a field that holds no object
None == [none |-> TRUE]

\* flags & f, for a single-bit f
HasFlag(flags, f) == (flags \div f) % 2 = 1
\* a | b, for flag sets without a common bit
FlagOr(a, b) == a + b

Min(a, b) == IF a <= b THEN a ELSE b
Max(a, b) == IF a >= b THEN a ELSE b
Abs(a) == IF a >= 0 THEN a ELSE -a

(***************************************************************************)
(* Byte strings.                                                           *)
(***************************************************************************)
\* A payload an application passes to send_msg.  kind says what
\* json.loads(data.decode('utf-8')) makes of it:
\*   "raw"    not UTF-8 or not JSON (JSONDecodeError / UnicodeDecodeError)
\*   "obj"    a JSON object without the key "_transport_timestamp"
\*   "obj_ts" a JSON object that has the key "_transport_timestamp"
\*   "scalar" a JSON value that is no object and on which lines 223-224
\*            raise TypeError: a number, true, false, null, a list, a
\*            string that does not contain the key
\* stamp is the value of "_transport_timestamp" (-1: there is none).
Payload(id, kind, len, stamp) ==
    [id |-> id, kind |-> kind, len |-> len, stamp |-> stamp]

NoPayload == Payload(0, "raw", 0, -1)

\* data[lo:hi]
Slice(p, lo, hi) == [p |-> p, lo |-> Min(lo, p.len), hi |-> Min(hi, p.len)]
Whole(p) == Slice(p, 0, p.len)
Empty == Slice(NoPayload, 0, 0)      \* b''
BLen(b) == b.hi - b.lo               \* len(b)

(***************************************************************************)
(* Packet codec.                                                           *)
(***************************************************************************)
\* The first four bytes of the MD5 digest of the 16 header bytes and the
\* payload, taken as collision free: the digest is the digested fields.
_calculate_checksum(flags, seq, ack, length, conn_id, data) ==
    <<VERSION, flags, conn_id, seq, ack, length, data>>

\* header + data, with the addresses of the datagram that carries it
_create_header(flags, seq, ack, length, conn_id, data, src, dst) ==
    [version |-> VERSION, flags |-> flags, conn_id |-> conn_id,
     seq |-> seq, ack |-> ack, length |-> length,
     checksum |-> _calculate_checksum(flags, seq, ack, length, conn_id, data),
     data |-> data, src |-> src, dst |-> dst, short |-> FALSE]

\* len(packet)
PacketLen(pkt) == IF pkt.short THEN HEADER_SIZE - 1
                  ELSE HEADER_SIZE + BLen(pkt.data)

\* a receive loop that takes every datagram as intact
_verify_checksum_skipped(pkt) == TRUE

\* expected == checksum, both recomputed from the datagram received
_verify_checksum(pkt) ==
    pkt.checksum = _calculate_checksum(pkt.flags, pkt.seq, pkt.ack,
                                       pkt.length, pkt.conn_id, pkt.data)

(***************************************************************************)
(* Connection record.                                                      *)
(***************************************************************************)
EmptyDict == [k \in {} |-> Empty]
DictPut(d, k, v) == [x \in (DOMAIN d) \cup {k} |-> IF x = k THEN v ELSE d[x]]
DictDel(d, k) == [x \in (DOMAIN d) \ {k} |-> d[x]]

Connection(peer_address, protocol, now) ==
    [peer_address |-> peer_address, protocol |-> protocol,
     next_seq |-> 0, expected_seq |-> 0,
     send_window |-> <<>>, receive_buffer |-> EmptyDict,
     rtt_estimate |-> 1000, rtt_variance |-> 0, rto |-> 1000,
     packet_times |-> EmptyDict,
     on_message_callback |-> FALSE, on_disconnect_callback |-> FALSE,
     connected |-> TRUE, handshake_complete |-> FALSE,
     last_activity |-> now]

\* One entry of the send window: (seq, flags, ack, data, send_time)
Entry(seq, flags, ack, data, time) ==
    [seq |-> seq, flags |-> flags, ack |-> ack, data |-> data, time |-> time]

(***************************************************************************)
(* What a handler does besides changing the connection: the datagrams it   *)
(* emits, the payloads it hands to on_message, the on_disconnect calls,    *)
(* and what it adds to the statistics.                                     *)
(***************************************************************************)
Effect(conn) ==
    [conn |-> conn, out |-> <<>>, deliv |-> <<>>, disc |-> 0,
     msgs |-> 0, ooo |-> 0, lat |-> <<>>, newconn |-> 0, retx |-> 0]

(***************************************************************************)
(* RTT estimation (integer milliseconds; x * 0.125 is x \div 8).           *)
(***************************************************************************)
\* lines 117-125: the estimate, the variance and the raw timeout
_update_rtt_estimate(conn, rtt_sample) ==
    LET first == conn.rtt_estimate = INITIAL_RTO
        error == rtt_sample - conn.rtt_estimate
        est == IF first THEN rtt_sample
               ELSE conn.rtt_estimate + (error \div 8)
        var == IF first THEN rtt_sample \div 2
               ELSE conn.rtt_variance
                    + ((Abs(error) - conn.rtt_variance) \div 4)
    IN  [conn EXCEPT !.rtt_estimate = est, !.rtt_variance = var,
                     !.rto = est + 4 * var]

\* line 126: the timeout is clamped
_update_rtt_clamp(conn) ==
    [conn EXCEPT !.rto = Max(MIN_RTO, Min(MAX_RTO, @))]

_update_rtt(conn, rtt_sample) ==
    _update_rtt_clamp(_update_rtt_estimate(conn, rtt_sample))

(***************************************************************************)
(* Sending one datagram.                                                   *)
(***************************************************************************)
_send_packet_to(eff, flags, seq, ack, data, now, sock) ==
    IF ~sock THEN eff
    ELSE LET packet == _create_header(flags, seq, ack, BLen(data), 0, data,
                                      eff.conn.protocol, eff.conn.peer_address)
         IN  [eff EXCEPT
                !.out = Append(@, packet),
                !.conn.packet_times =
                    IF HasFlag(flags, FLAG_DATA) THEN DictPut(@, seq, now)
                    ELSE @]

(***************************************************************************)
(* Packet handlers.                                                        *)
(***************************************************************************)
\* a handshake handler that answers but leaves next_seq as it was
_handle_syn_keep_seq(eff, flags, seq, ack, now, sock) ==
    IF HasFlag(flags, FLAG_ACK)
    THEN LET e1 == [eff EXCEPT !.conn.expected_seq = seq + 1]
             e2 == _send_packet_to(e1, FLAG_ACK, e1.conn.next_seq,
                                   e1.conn.expected_seq, Empty, now, sock)
         IN  [e2 EXCEPT !.conn.handshake_complete = TRUE]
    ELSE LET e1 == [eff EXCEPT !.conn.expected_seq = seq + 1]
         IN  _send_packet_to(e1, FlagOr(FLAG_SYN, FLAG_ACK),
                             e1.conn.next_seq, e1.conn.expected_seq, Empty,
                             now, sock)

\* a handshake handler that marks the connection established at the SYN
_handle_syn_eager(eff, flags, seq, ack, now, sock) ==
    [_handle_syn_keep_seq(eff, flags, seq, ack, now, sock)
        EXCEPT !.conn.next_seq = @ + 1, !.conn.handshake_complete = TRUE]

_handle_syn(eff, flags, seq, ack, now, sock) ==
    IF HasFlag(flags, FLAG_ACK)
    THEN \* SYN|ACK: the initiator completes the handshake
         LET e1 == [eff EXCEPT !.conn.expected_seq = seq + 1]
             e2 == _send_packet_to(e1, FLAG_ACK, e1.conn.next_seq,
                                   e1.conn.expected_seq, Empty, now, sock)
         IN  [e2 EXCEPT !.conn.next_seq = @ + 1,
                        !.conn.handshake_complete = TRUE]
    ELSE \* SYN: the responder answers
         LET e1 == [eff EXCEPT !.conn.expected_seq = seq + 1]
             e2 == _send_packet_to(e1, FlagOr(FLAG_SYN, FLAG_ACK),
                                   e1.conn.next_seq, e1.conn.expected_seq,
                                   Empty, now, sock)
         IN  [e2 EXCEPT !.conn.next_seq = @ + 1]

\* while conn.send_window and conn.send_window[0][0] < ack: popleft()
RECURSIVE PopAcked(_, _)
PopAcked(window, ack) ==
    IF window # <<>> /\ Head(window).seq < ack
    THEN PopAcked(Tail(window), ack)
    ELSE window

\* an ACK handler that takes any ACK as the end of the handshake
_handle_ack_any(eff, seq, ack, now) ==
    LET c1 == [eff.conn EXCEPT !.handshake_complete = TRUE]
        c2 == IF ack \in DOMAIN c1.packet_times
              THEN [_update_rtt(c1, now - c1.packet_times[ack])
                        EXCEPT !.packet_times = DictDel(@, ack)]
              ELSE c1
    IN  [eff EXCEPT !.conn = [c2 EXCEPT !.send_window = PopAcked(@, ack)]]

_handle_ack(eff, seq, ack, now) ==
    LET c0 == eff.conn
        c1 == IF ~c0.handshake_complete /\ ack > 0
              THEN [c0 EXCEPT !.handshake_complete = TRUE]
              ELSE c0
        c2 == IF ack \in DOMAIN c1.packet_times
              THEN [_update_rtt(c1, now - c1.packet_times[ack])
                        EXCEPT !.packet_times = DictDel(@, ack)]
              ELSE c1
    IN  [eff EXCEPT !.conn = [c2 EXCEPT !.send_window = PopAcked(@, ack)]]

\* What json.loads makes of a received chunk: only a chunk that is a whole
\* payload is the JSON document the payload was.
JsonKind(data) == IF data.lo = 0 /\ data.hi = data.p.len /\ data.p.len > 0
                  THEN data.p.kind ELSE "raw"

\* if conn.on_message_callback: conn.on_message_callback(data)
\* conn.expected_seq += 1; self.stats['messages_received'] += 1
Deliver(eff, data) ==
    [eff EXCEPT !.deliv = IF eff.conn.on_message_callback
                          THEN Append(@, data) ELSE @,
                !.conn.expected_seq = @ + 1,
                !.msgs = @ + 1]

\* while conn.expected_seq in conn.receive_buffer: pop, deliver
RECURSIVE DrainBuffer(_)
DrainBuffer(eff) ==
    IF eff.conn.expected_seq \in DOMAIN eff.conn.receive_buffer
    THEN LET k == eff.conn.expected_seq
             buffered_data == eff.conn.receive_buffer[k]
         IN  DrainBuffer(Deliver(
                 [eff EXCEPT !.conn.receive_buffer = DictDel(@, k)],
                 buffered_data))
    ELSE eff

_handle_data(eff, seq, ack, data, now, sock) ==
    LET receive_time == now
        e1 == IF seq = eff.conn.expected_seq
              THEN LET d1 == Deliver(eff, data)
                       d2 == IF JsonKind(data) = "obj_ts"
                             THEN [d1 EXCEPT !.lat =
                                      Append(@, receive_time - data.p.stamp)]
                             ELSE d1
                   IN  DrainBuffer(d2)
              ELSE [eff EXCEPT
                      !.conn.receive_buffer = DictPut(@, seq, data),
                      !.ooo = @ + 1]
    IN  _send_packet_to(e1, FLAG_ACK, e1.conn.next_seq,
                        e1.conn.expected_seq, Empty, now, sock)

_handle_fin(eff, seq, ack, now, sock) ==
    LET e1 == [eff EXCEPT !.conn.connected = FALSE]
        e2 == _send_packet_to(e1, FlagOr(FLAG_FIN, FLAG_ACK),
                              e1.conn.next_seq, ack + 1, Empty, now, sock)
    IN  [e2 EXCEPT !.disc = IF e2.conn.on_disconnect_callback
                            THEN @ + 1 ELSE @]

\* if flags & SYN ... elif flags & ACK ... elif flags & DATA ... elif FIN
Dispatch(eff, pkt, now, sock) ==
    IF HasFlag(pkt.flags, FLAG_SYN)
    THEN _handle_syn(eff, pkt.flags, pkt.seq, pkt.ack, now, sock)
    ELSE IF HasFlag(pkt.flags, FLAG_ACK)
    THEN _handle_ack(eff, pkt.seq, pkt.ack, now)
    ELSE IF HasFlag(pkt.flags, FLAG_DATA)
    THEN _handle_data(eff, pkt.seq, pkt.ack, pkt.data, now, sock)
    ELSE IF HasFlag(pkt.flags, FLAG_FIN)
    THEN _handle_fin(eff, pkt.seq, pkt.ack, now, sock)
    ELSE eff

(***************************************************************************)
(* Endpoint state and statistics.                                          *)
(***************************************************************************)
NewStats ==
    [packets_sent |-> 0, packets_received |-> 0, packets_retransmitted |-> 0,
     bytes_sent |-> 0, bytes_received |-> 0, checksum_errors |-> 0,
     messages_sent |-> 0, messages_received |-> 0,
     out_of_order_packets |-> 0, message_latencies |-> <<>>]

\* counter += k (the model keeps a counter modulo cap + 1)
Bump(n, k, cap) == (n + k) % (cap + 1)

RECURSIVE SumLen(_)
SumLen(pkts) == IF pkts = <<>> THEN 0
                ELSE PacketLen(Head(pkts)) + SumLen(Tail(pkts))

Range(f) == {f[i] : i \in DOMAIN f}

\* the counters a handler and the datagrams it sent add to self.stats
CountEffect(st, eff) ==
    [st EXCEPT
       !.packets_sent = Bump(@, Len(eff.out), limits.count),
       !.bytes_sent = Bump(@, SumLen(eff.out), limits.bytes),
       !.messages_received = Bump(@, eff.msgs, limits.count),
       !.out_of_order_packets = Bump(@, eff.ooo, limits.count),
       !.message_latencies =
           IF Len(@) + Len(eff.lat) <= limits.count THEN @ \o eff.lat ELSE @]

Threads == {"c1", "c2", "s1"}
ThreadEp(t) == IF t = "s1" THEN "s" ELSE "c"

IdleThread ==
    [pc |-> "idle", data |-> Empty, offset |-> 0, chunk |-> Empty,
     seq |-> 0, tmp |-> 0, start_time |-> 0]


(***************************************************************************)
(* The applications.  The application at "s" listens and the one at "c"    *)
(* connects; each registers its callbacks the way chat_server.py and       *)
(* chat_client.py do.                                                      *)
(***************************************************************************)
\* what the application has done with the endpoint: start() returned,
\* connect() returned or a client was accepted, stop() returned, and how
\* many times its on_new_client was invoked
NewApp == [started |-> FALSE, conn |-> FALSE, stopped |-> FALSE,
           accepted |-> 0]

\* on_new_client: protocol.on_message(conn, ...); protocol.on_disconnect(...)
OnNewClient(conn) ==
    [conn EXCEPT !.on_message_callback = TRUE,
                 !.on_disconnect_callback = TRUE]

(***************************************************************************)
(* Initial state: two endpoints constructed, nothing started.              *)
(***************************************************************************)
InitEndpoints ==
    /\ running = [e \in Endpoints |-> FALSE]
    /\ is_server = [e \in Endpoints |-> FALSE]
    /\ socket = [e \in Endpoints |-> FALSE]
    /\ on_new_connection_callback = [e \in Endpoints |-> FALSE]
    /\ connections = [e \in Endpoints |-> None]
    /\ stats = [e \in Endpoints |-> NewStats]
    /\ net = {}
    /\ clock = 0
    /\ threads = [t \in Threads |-> IdleThread]
    /\ delivered = [e \in Endpoints |-> <<>>]
    /\ disconnects = [e \in Endpoints |-> 0]
    /\ submitted = [e \in Endpoints |-> <<>>]
    /\ assigned = [e \in Endpoints |-> <<>>]
    /\ errors = [e \in Endpoints |-> {}]
    /\ app = [e \in Endpoints |-> NewApp]

(***************************************************************************)
(* Endpoint operations.                                                    *)
(***************************************************************************)
\* on_new_connection(callback)
on_new_connection(e) ==
    /\ e = "s"
    /\ ~running[e] /\ ~app[e].stopped
    /\ ~on_new_connection_callback[e]
    /\ on_new_connection_callback' =
           [on_new_connection_callback EXCEPT ![e] = TRUE]
    /\ UNCHANGED <<limits, submitted, running, is_server, socket,
                   connections, stats, net, clock, threads, todo, delivered,
                   disconnects, assigned, errors, app>>

\* start(): listening mode
start(e) ==
    /\ e = "s" \/ running[e]
    /\ ~app[e].stopped
    /\ IF running[e]
       THEN UNCHANGED <<running, is_server, socket>>
       ELSE /\ is_server' = [is_server EXCEPT ![e] = TRUE]
            /\ socket' = [socket EXCEPT ![e] = TRUE]
            /\ running' = [running EXCEPT ![e] = TRUE]
    /\ app' = [app EXCEPT ![e].started = TRUE]
    /\ UNCHANGED <<limits, submitted, on_new_connection_callback,
                   connections, stats, net, clock, threads, todo, delivered,
                   disconnects, assigned, errors>>

\* connect(addr), up to the SYN; the caller (thread c1) then waits
connect(e) ==
    /\ e = "c" \/ running[e]
    /\ ~app[e].stopped
    /\ threads["c1"].pc = "idle" /\ ~app["c"].conn
    /\ IF running[e]
       THEN /\ errors' = [errors EXCEPT ![e] = @ \cup {"Already running"}]
            /\ UNCHANGED <<running, is_server, socket, connections, stats,
                           net, threads>>
       ELSE LET conn == Connection(Peer(e), e, clock)
                eff == _send_packet_to(Effect(conn), FLAG_SYN, 0, 0, Empty,
                                       clock, TRUE)
            IN  /\ is_server' = [is_server EXCEPT ![e] = FALSE]
                /\ socket' = [socket EXCEPT ![e] = TRUE]
                /\ running' = [running EXCEPT ![e] = TRUE]
                /\ connections' = [connections EXCEPT ![e] = eff.conn]
                /\ stats' = [stats EXCEPT ![e] = CountEffect(@, eff)]
                /\ net' = net \cup Range(eff.out)
                /\ threads' = [threads EXCEPT !["c1"].pc = "connect_wait",
                                              !["c1"].start_time = clock]
                /\ UNCHANGED errors
    /\ UNCHANGED <<limits, submitted, on_new_connection_callback, clock,
                   todo, delivered, disconnects, assigned, app>>

\* connect(addr): the wait for the handshake ends and connect returns
connect_return(t) ==
    /\ threads[t].pc = "connect_wait"
    /\ LET e == ThreadEp(t) IN
       /\ \/ connections[e].handshake_complete
          \/ clock - threads[t].start_time > HANDSHAKE_TIMEOUT
       /\ threads' = [threads EXCEPT ![t].pc = "idle"]
       /\ app' = [app EXCEPT ![e].conn = TRUE]
    /\ UNCHANGED <<limits, submitted, running, is_server, socket,
                   on_new_connection_callback, connections, stats, net,
                   clock, todo, delivered, disconnects, assigned, errors>>

\* on_message(conn, callback)
on_message(e) ==
    /\ app[e].conn
    /\ ~connections[e].on_message_callback
    /\ connections' = [connections EXCEPT ![e].on_message_callback = TRUE]
    /\ UNCHANGED <<limits, submitted, running, is_server, socket,
                   on_new_connection_callback, stats, net, clock, threads,
                   todo, delivered, disconnects, assigned, errors, app>>

\* on_disconnect(conn, callback)
on_disconnect(e) ==
    /\ app[e].conn
    /\ ~connections[e].on_disconnect_callback
    /\ connections' = [connections EXCEPT ![e].on_disconnect_callback = TRUE]
    /\ UNCHANGED <<limits, submitted, running, is_server, socket,
                   on_new_connection_callback, stats, net, clock, threads,
                   todo, delivered, disconnects, assigned, errors, app>>

(***************************************************************************)
(* send_msg, statement by statement: it runs on an application thread,     *)
(* concurrently with the receive loop, the timer loop and other callers.   *)
(***************************************************************************)
\* the check of line 202 with conn.connected left out
NotActiveUnlessRunning(e) == ~running[e]

\* line 202: not self.running or not conn.connected
NotActive(e) == ~running[e] \/ ~connections[e].connected

\* lines 200-207: the call, the check of running and connected
send_msg_call(t) ==
    LET e == ThreadEp(t) IN
    /\ threads[t].pc = "idle"
    /\ todo[t] # <<>>
    /\ app[e].conn
    /\ todo' = [todo EXCEPT ![t] = Tail(@)]
    /\ submitted' = [submitted EXCEPT ![e] = Append(@, Head(todo[t]))]
    /\ IF NotActive(e)
       THEN /\ errors' = [errors EXCEPT ![e] =
                             @ \cup {"Connection not active"}]
            /\ UNCHANGED threads
       ELSE /\ threads' = [threads EXCEPT ![t].pc = "handshake_wait",
                                          ![t].data = Whole(Head(todo[t])),
                                          ![t].start_time = clock]
            /\ UNCHANGED errors
    /\ UNCHANGED <<limits, running, is_server, socket,
                   on_new_connection_callback, connections, stats, net,
                   clock, delivered, disconnects, assigned, app>>

\* lines 219-228: what the timestamp embedding makes of the payload
EmbedTimestamp(data, message_send_time) ==
    IF data.p.kind = "obj"
    THEN Whole(Payload(data.p.id, "obj_ts", data.p.len + TsFieldLen,
                       message_send_time))
    ELSE data

\* lines 223-226: "in" and item assignment on a value that is not a dict
\* raise TypeError, which is not among the exceptions caught
EmbedRaises(data) == data.p.kind = "scalar"

\* lines 231-232: the chunk that starts at offset
ChunkAt(data, offset) == Slice(data.p, offset, offset + MAX_PAYLOAD_SIZE)

\* a send_msg that does not wait for the handshake
send_msg_handshake_skipped(t) ==
    /\ threads[t].pc = "handshake_wait"
    /\ threads' = [threads EXCEPT ![t].pc = "window_wait",
                                  ![t].offset = 0,
                                  ![t].chunk = ChunkAt(threads[t].data, 0)]
    /\ UNCHANGED <<limits, submitted, running, is_server, socket,
                   on_new_connection_callback, connections, stats, net,
                   clock, todo, delivered, disconnects, assigned, errors,
                   app>>

\* lines 208-232: the wait for the handshake, then messages_sent, the
\* timestamp and the chunk list
send_msg_handshake(t) ==
    LET e == ThreadEp(t)
        message_send_time == clock
        embedded == EmbedTimestamp(threads[t].data, message_send_time)
    IN
    /\ threads[t].pc = "handshake_wait"
    /\ IF connections[e].handshake_complete
       THEN /\ stats' = [stats EXCEPT ![e].messages_sent =
                                         Bump(@, 1, limits.count)]
            /\ IF EmbedRaises(threads[t].data)
               THEN /\ errors' = [errors EXCEPT ![e] = @ \cup {"TypeError"}]
                    /\ threads' = [threads EXCEPT ![t] = IdleThread]
               ELSE /\ UNCHANGED errors
                    /\ threads' = [threads EXCEPT ![t] =
                          IF BLen(embedded) = 0 THEN IdleThread
                          ELSE [@ EXCEPT !.pc = "window_wait",
                                         !.data = embedded,
                                         !.offset = 0,
                                         !.chunk = ChunkAt(embedded, 0)]]
       ELSE /\ clock - threads[t].start_time > HANDSHAKE_TIMEOUT
            /\ errors' = [errors EXCEPT ![e] =
                             @ \cup {"Connection handshake timeout"}]
            /\ threads' = [threads EXCEPT ![t] = IdleThread]
            /\ UNCHANGED stats
    /\ UNCHANGED <<limits, submitted, running, is_server, socket,
                   on_new_connection_callback, connections, net, clock, todo,
                   delivered, disconnects, assigned, app>>

\* lines 236-237: while len(conn.send_window) >= MAX_WINDOW_SIZE: sleep
WindowHasSpace(conn) == Len(conn.send_window) < MAX_WINDOW_SIZE

send_msg_window(t) ==
    LET e == ThreadEp(t) IN
    /\ threads[t].pc = "window_wait"
    /\ WindowHasSpace(connections[e])
    /\ threads' = [threads EXCEPT ![t].pc = "assign"]
    /\ UNCHANGED <<limits, submitted, running, is_server, socket,
                   on_new_connection_callback, connections, stats, net,
                   clock, todo, delivered, disconnects, assigned, errors,
                   app>>

\* line 239: seq = conn.next_seq
send_msg_assign(t) ==
    LET e == ThreadEp(t) IN
    /\ threads[t].pc = "assign"
    /\ threads' = [threads EXCEPT ![t].pc = "load",
                                  ![t].seq = connections[e].next_seq]
    /\ UNCHANGED <<limits, submitted, running, is_server, socket,
                   on_new_connection_callback, connections, stats, net,
                   clock, todo, delivered, disconnects, assigned, errors,
                   app>>

\* line 240: conn.next_seq += 1, the read
send_msg_load(t) ==
    LET e == ThreadEp(t) IN
    /\ threads[t].pc = "load"
    /\ threads' = [threads EXCEPT ![t].pc = "store",
                                  ![t].tmp = connections[e].next_seq]
    /\ UNCHANGED <<limits, submitted, running, is_server, socket,
                   on_new_connection_callback, connections, stats, net,
                   clock, todo, delivered, disconnects, assigned, errors,
                   app>>

\* line 240: conn.next_seq += 1, the write
send_msg_store(t) ==
    LET e == ThreadEp(t) IN
    /\ threads[t].pc = "store"
    /\ connections' = [connections EXCEPT ![e].next_seq = threads[t].tmp + 1]
    /\ threads' = [threads EXCEPT ![t].pc = "append"]
    /\ UNCHANGED <<limits, submitted, running, is_server, socket,
                   on_new_connection_callback, stats, net, clock, todo,
                   delivered, disconnects, assigned, errors, app>>

\* lines 242-243: with self.lock: conn.send_window.append(...)
send_msg_append(t) ==
    LET e == ThreadEp(t) IN
    /\ threads[t].pc = "append"
    /\ connections' = [connections EXCEPT ![e].send_window =
           Append(@, Entry(threads[t].seq, FLAG_DATA, 0, threads[t].chunk,
                           clock))]
    /\ threads' = [threads EXCEPT ![t].pc = "emit"]
    /\ UNCHANGED <<limits, submitted, running, is_server, socket,
                   on_new_connection_callback, stats, net, clock, todo,
                   delivered, disconnects, assigned, errors, app>>

\* line 245: self._send_packet_to(conn, FLAG_DATA, seq, 0, chunk); then the
\* next chunk, or the return
send_msg_emit(t) ==
    LET e == ThreadEp(t)
        th == threads[t]
        eff == _send_packet_to(Effect(connections[e]), FLAG_DATA, th.seq, 0,
                               th.chunk, clock, socket[e])
        next_offset == th.offset + MAX_PAYLOAD_SIZE
    IN
    /\ th.pc = "emit"
    /\ connections' = [connections EXCEPT ![e] = eff.conn]
    /\ stats' = [stats EXCEPT ![e] = CountEffect(@, eff)]
    /\ net' = net \cup Range(eff.out)
    /\ assigned' = [assigned EXCEPT ![e] = Append(@, <<th.seq, th.chunk>>)]
    /\ threads' = [threads EXCEPT ![t] =
          IF next_offset < th.data.p.len
          THEN [@ EXCEPT !.pc = "window_wait", !.offset = next_offset,
                         !.chunk = ChunkAt(th.data, next_offset)]
          ELSE IdleThread]
    /\ UNCHANGED <<limits, submitted, running, is_server, socket,
                   on_new_connection_callback, clock, todo, delivered,
                   disconnects, errors, app>>

(***************************************************************************)
(* The receive loops.                                                      *)
(***************************************************************************)
\* What the network can hand to e's socket: a datagram sent to it, one of
\* those with a header field or a payload byte changed in transit, or a
\* datagram cut below the header size.
Damaged(p) ==
    {[p EXCEPT !.seq = @ + 1], [p EXCEPT !.ack = @ + 1],
     [p EXCEPT !.flags = IF @ = FLAG_DATA THEN FLAG_ACK ELSE FLAG_DATA],
     [p EXCEPT !.checksum = <<>>]}
    \cup (IF BLen(p.data) > 0 THEN {[p EXCEPT !.data.p.id = 0 - @]} ELSE {})

Arrivals(e) ==
    LET sent == {p \in net : p.dst = e} IN
    sent \cup UNION {Damaged(p) : p \in sent}
         \cup {[p EXCEPT !.short = TRUE] : p \in sent}

\* lines 311-321 and 360-370: last_activity, the dispatch, and what the
\* handler's effect does to the endpoint
Handle(e, pkt, conn, newconn, st) ==
    LET c1 == [conn EXCEPT !.last_activity = clock]
        eff == Dispatch([Effect(c1) EXCEPT !.newconn = newconn], pkt, clock,
                        socket[e])
    IN  /\ connections' = [connections EXCEPT ![e] = eff.conn]
        /\ stats' = [stats EXCEPT ![e] = CountEffect(st, eff)]
        /\ net' = net \cup Range(eff.out)
        /\ delivered' = [delivered EXCEPT ![e] =
               IF Len(@) + Len(eff.deliv) <= limits.deliv
               THEN @ \o eff.deliv ELSE @]
        /\ disconnects' = [disconnects EXCEPT ![e] =
               IF @ + eff.disc <= limits.deliv THEN @ + eff.disc ELSE @]
        /\ app' = [app EXCEPT ![e].conn = @ \/ newconn = 1,
                              ![e].accepted = @ + newconn]

\* lines 296-297 and 353-354
CountReceived(st, pkt) ==
    [st EXCEPT !.packets_received = Bump(@, 1, limits.count),
               !.bytes_received = Bump(@, PacketLen(pkt), limits.bytes)]

\* a connection table that never finds the address
NeverKnown(conns, addr) == FALSE

\* line 301: addr in self.connections
IsKnownPeer(conns, addr) == conns # None /\ conns.peer_address = addr

\* one iteration of _receive_loop_server
_receive_loop_server(e, pkt) ==
    /\ running[e] /\ socket[e] /\ is_server[e]
    /\ IF PacketLen(pkt) < HEADER_SIZE
       THEN /\ UNCHANGED <<connections, stats, net, delivered, disconnects,
                           app>>
       ELSE IF ~_verify_checksum(pkt)
       THEN /\ stats' = [stats EXCEPT ![e].checksum_errors =
                                         Bump(@, 1, limits.count)]
            /\ UNCHANGED <<connections, net, delivered, disconnects, app>>
       ELSE LET st == CountReceived(stats[e], pkt)
                known == IsKnownPeer(connections[e], pkt.src)
                called == ~known /\ on_new_connection_callback[e]
                created == Connection(pkt.src, e, clock)
                conn == IF known THEN connections[e]
                        ELSE IF called THEN OnNewClient(created)
                        ELSE created
            IN  Handle(e, pkt, conn, IF called THEN 1 ELSE 0, st)
    /\ UNCHANGED <<limits, submitted, running, is_server, socket,
                   on_new_connection_callback, clock, threads, todo,
                   assigned, errors>>

\* one iteration of _receive_loop_client
_receive_loop_client(e, pkt) ==
    /\ running[e] /\ socket[e] /\ ~is_server[e]
    /\ IF PacketLen(pkt) < HEADER_SIZE
       THEN /\ UNCHANGED <<connections, stats, net, delivered, disconnects,
                           app>>
       ELSE IF ~_verify_checksum(pkt)
       THEN /\ stats' = [stats EXCEPT ![e].checksum_errors =
                                         Bump(@, 1, limits.count)]
            /\ UNCHANGED <<connections, net, delivered, disconnects, app>>
       ELSE LET st == CountReceived(stats[e], pkt) IN
            IF connections[e] = None
            THEN /\ stats' = [stats EXCEPT ![e] = st]
                 /\ UNCHANGED <<connections, net, delivered, disconnects,
                                app>>
            ELSE Handle(e, pkt, connections[e], 0, st)
    /\ UNCHANGED <<limits, submitted, running, is_server, socket,
                   on_new_connection_callback, clock, threads, todo,
                   assigned, errors>>

(***************************************************************************)
(* The retransmission timer.                                               *)
(***************************************************************************)
\* a timer pass that re-emits every window entry, whatever its age
RECURSIVE RetransmitAll(_, _, _, _, _)
RetransmitAll(eff, i, current_time, now, sock) ==
    IF i = 0 THEN eff
    ELSE LET w == eff.conn.send_window[i]
             e1 == _send_packet_to(eff, w.flags, w.seq, w.ack, w.data, now,
                                   sock)
             e2 == [e1 EXCEPT !.conn.send_window[i].time = current_time,
                              !.retx = @ + 1]
         IN  RetransmitAll(e2, i - 1, current_time, now, sock)

\* lines 515-519, for the indexes i, i-1, ..., 1 of the window
RECURSIVE Retransmit(_, _, _, _, _)
Retransmit(eff, i, current_time, now, sock) ==
    IF i = 0 THEN eff
    ELSE LET w == eff.conn.send_window[i] IN
         IF current_time - w.time > eff.conn.rto
         THEN LET e1 == _send_packet_to(eff, w.flags, w.seq, w.ack, w.data,
                                        now, sock)
                  e2 == [e1 EXCEPT !.conn.send_window[i].time = current_time,
                                   !.retx = @ + 1]
              IN  Retransmit(e2, i - 1, current_time, now, sock)
         ELSE Retransmit(eff, i - 1, current_time, now, sock)

\* one pass of _timer_loop that finds something to retransmit
_timer_loop(e) ==
    /\ running[e]
    /\ connections[e] # None
    /\ connections[e].connected
    /\ LET conn == connections[e]
           eff == Retransmit([Effect(conn) EXCEPT !.retx = 0],
                             Len(conn.send_window), clock, clock, socket[e])
       IN  /\ eff.retx > 0
           /\ connections' = [connections EXCEPT ![e] = eff.conn]
           /\ stats' = [stats EXCEPT ![e] =
                 [CountEffect(@, eff) EXCEPT
                     !.packets_retransmitted =
                         Bump(@, eff.retx, limits.count)]]
           /\ net' = net \cup Range(eff.out)
    /\ UNCHANGED <<limits, submitted, running, is_server, socket,
                   on_new_connection_callback, clock, threads, todo,
                   delivered, disconnects, assigned, errors, app>>

\* time passes
Tick ==
    /\ clock < limits.ticks * TickMs
    /\ clock' = clock + TickMs
    /\ UNCHANGED <<limits, submitted, running, is_server, socket,
                   on_new_connection_callback, connections, stats, net,
                   threads, todo, delivered, disconnects, assigned, errors,
                   app>>

(***************************************************************************)
(* Shutdown.                                                               *)
(***************************************************************************)
\* a shutdown that sends a FIN on every connection, closed or not
SendFinToAll(conn, now, sock) ==
    IF conn # None
    THEN _send_packet_to(Effect(conn), FLAG_FIN, conn.next_seq, 0, Empty,
                         now, sock)
    ELSE Effect(conn)

\* lines 544-561: a FIN on the connection if it is still connected
SendFin(conn, now, sock) ==
    IF conn # None /\ conn.connected
    THEN _send_packet_to(Effect(conn), FLAG_FIN, conn.next_seq, 0, Empty,
                         now, sock)
    ELSE Effect(conn)

\* stop(): running, the FIN, the socket; the joins of the two loops are
\* taken as immediate
stop(e) ==
    /\ running[e] \/ app[e].stopped
    /\ IF ~running[e]
       THEN /\ UNCHANGED <<running, socket, connections, stats, net, app>>
       ELSE LET conn == connections[e]
                eff == SendFin(conn, clock, socket[e])
            IN  /\ running' = [running EXCEPT ![e] = FALSE]
                /\ socket' = [socket EXCEPT ![e] = FALSE]
                /\ connections' = [connections EXCEPT ![e] = eff.conn]
                /\ stats' = [stats EXCEPT ![e] = CountEffect(@, eff)]
                /\ net' = net \cup Range(eff.out)
                /\ app' = [app EXCEPT ![e].stopped = TRUE]
    /\ UNCHANGED <<limits, submitted, is_server, on_new_connection_callback,
                   clock, threads, todo, delivered, disconnects, assigned,
                   errors>>

(***************************************************************************)
(* The protocol under a network that loses, reorders, duplicates and       *)
(* damages datagrams: one application thread at "c" sends, the receive     *)
(* loops process at most MaxRecv intact and MaxCorrupt damaged datagrams.  *)
(***************************************************************************)
\* One iteration of e's receive loop on the datagram pkt, while the
\* specification's bounds (limits) allow another datagram of its sort.
ReceivePacket(e, pkt) ==
    /\ IF PacketLen(pkt) >= HEADER_SIZE /\ _calculate_checksum(
              pkt.flags, pkt.seq, pkt.ack, pkt.length, pkt.conn_id,
              pkt.data) = pkt.checksum
       THEN stats["c"].packets_received + stats["s"].packets_received
                < limits.recv
       ELSE stats["c"].checksum_errors + stats["s"].checksum_errors
                < limits.corrupt
    /\ HasFlag(pkt.flags, FLAG_SYN) /\ connections[e] # None
          => connections[e].next_seq < limits.seq
    /\ \/ _receive_loop_server(e, pkt)
       \/ _receive_loop_client(e, pkt)

Receive(e) == \E pkt \in Arrivals(e) : ReceivePacket(e, pkt)

Workload == [t \in Threads |->
                IF t = "c1" THEN <<Payload(1, "raw", 10, -1)>> ELSE <<>>]

Init ==
    /\ InitEndpoints
    /\ todo = Workload
    /\ limits = Bounded(MaxRecv, MaxCorrupt, MaxTicks)

Next ==
    \/ \E e \in Endpoints : on_new_connection(e)
    \/ \E e \in Endpoints : start(e)
    \/ \E e \in Endpoints : connect(e)
    \/ \E t \in Threads : connect_return(t)
    \/ \E e \in Endpoints : on_message(e)
    \/ \E e \in Endpoints : on_disconnect(e)
    \/ \E t \in Threads : send_msg_call(t)
    \/ \E t \in Threads : send_msg_handshake(t)
    \/ \E t \in Threads : send_msg_window(t)
    \/ \E t \in Threads : send_msg_assign(t)
    \/ \E t \in Threads : send_msg_load(t)
    \/ \E t \in Threads : send_msg_store(t)
    \/ \E t \in Threads : send_msg_append(t)
    \/ \E t \in Threads : send_msg_emit(t)
    \/ \E e \in Endpoints : Receive(e)
    \/ \E e \in Endpoints : _timer_loop(e)
    \/ \E e \in Endpoints : stop(e)
    \/ Tick

Spec == Init /\ [][Next]_vars


(***************************************************************************)
(* Replay: the same protocol with no damage, no timer and no shutdown, and *)
(* a larger number of datagrams processed, so that a datagram the network  *)
(* duplicated can arrive after later ones.                                 *)
(***************************************************************************)
MaxReplay == 5

InitReplay ==
    /\ InitEndpoints
    /\ todo = Workload
    /\ limits = Bounded(MaxReplay, 0, 0)

SendSteps ==
    \/ \E t \in Threads : send_msg_call(t)
    \/ \E t \in Threads : send_msg_handshake(t)
    \/ \E t \in Threads : send_msg_window(t)
    \/ \E t \in Threads : send_msg_assign(t)
    \/ \E t \in Threads : send_msg_load(t)
    \/ \E t \in Threads : send_msg_store(t)
    \/ \E t \in Threads : send_msg_append(t)
    \/ \E t \in Threads : send_msg_emit(t)

NextReplay ==
    \/ \E e \in Endpoints : on_new_connection(e)
    \/ \E e \in Endpoints : start(e)
    \/ \E e \in Endpoints : connect(e)
    \/ \E t \in Threads : connect_return(t)
    \/ \E e \in Endpoints : on_message(e)
    \/ SendSteps
    \/ \E e \in Endpoints : Receive(e)

SpecReplay == InitReplay /\ [][NextReplay]_vars

(***************************************************************************)
(* Damage: the handshake and one send_msg call under a network that also   *)
(* damages datagrams in transit.                                           *)
(***************************************************************************)
MaxDamageRecv == 3
MaxDamage == 2

InitDamage ==
    /\ InitEndpoints
    /\ todo = Workload
    /\ limits = Bounded(MaxDamageRecv, MaxDamage, 0)

SpecDamage == InitDamage /\ [][NextReplay]_vars

(***************************************************************************)
(* An established connection: "s" listens with its callback registered,    *)
(* "c" has connected, and the three handshake datagrams were each          *)
(* processed once, in order.  The state is computed with the handlers.     *)
(***************************************************************************)
Established(work, lim) ==
    LET syn == _send_packet_to(Effect(Connection("s", "c", 0)), FLAG_SYN,
                               0, 0, Empty, 0, TRUE)
        synack == Dispatch(Effect(OnNewClient(Connection("c", "s", 0))),
                           syn.out[1], 0, TRUE)
        ack == Dispatch(Effect(syn.conn), synack.out[1], 0, TRUE)
        done == Dispatch(Effect(synack.conn), ack.out[1], 0, TRUE)
    IN
    /\ limits = lim
    /\ todo = work
    /\ running = [e \in Endpoints |-> TRUE]
    /\ is_server = [e \in Endpoints |-> e = "s"]
    /\ socket = [e \in Endpoints |-> TRUE]
    /\ on_new_connection_callback = [e \in Endpoints |-> e = "s"]
    /\ connections = [e \in Endpoints |->
          IF e = "c" THEN [ack.conn EXCEPT !.on_message_callback = TRUE]
          ELSE done.conn]
    /\ stats = [e \in Endpoints |->
          IF e = "c"
          THEN CountEffect(CountReceived(CountEffect(NewStats, syn),
                                         synack.out[1]), ack)
          ELSE CountEffect(CountReceived(
                   CountEffect(CountReceived(NewStats, syn.out[1]), synack),
                   ack.out[1]), done)]
    /\ net = Range(syn.out) \cup Range(synack.out) \cup Range(ack.out)
    /\ clock = 0
    /\ threads = [t \in Threads |-> IdleThread]
    /\ delivered = [e \in Endpoints |-> <<>>]
    /\ disconnects = [e \in Endpoints |-> 0]
    /\ submitted = [e \in Endpoints |-> <<>>]
    /\ assigned = [e \in Endpoints |-> <<>>]
    /\ errors = [e \in Endpoints |-> {}]
    /\ app = [e \in Endpoints |->
                [started |-> e = "s", conn |-> TRUE, stopped |-> FALSE,
                 accepted |-> IF e = "s" THEN 1 ELSE 0]]

\* datagrams the handshake had the receive loops process: the SYN, the
\* SYN|ACK and the ACK
HandshakeReceived ==
    Cardinality({FLAG_SYN, FlagOr(FLAG_SYN, FLAG_ACK), FLAG_ACK})

NextSend ==
    \/ SendSteps
    \/ \E e \in Endpoints : Receive(e)

(***************************************************************************)
(* Two application threads of "c" call send_msg concurrently.              *)
(***************************************************************************)
MaxThreadRecv == 2

WorkloadThreads ==
    [t \in Threads |->
        IF t = "c1" THEN <<Payload(1, "raw", 10, -1)>>
        ELSE IF t = "c2" THEN <<Payload(2, "raw", 10, -1)>>
        ELSE <<>>]

InitThreads ==
    Established(WorkloadThreads,
                Bounded(HandshakeReceived + MaxThreadRecv, 0, 0))

SpecThreads == InitThreads /\ [][NextSend]_vars

(***************************************************************************)
(* The send window under concurrent callers: one thread sends a payload    *)
(* of MAX_WINDOW_SIZE chunks, another a one-chunk payload; nothing is      *)
(* acknowledged meanwhile.                                                 *)
(***************************************************************************)
WorkloadWindow ==
    [t \in Threads |->
        IF t = "c1"
        THEN <<Payload(1, "raw", MAX_WINDOW_SIZE * MAX_PAYLOAD_SIZE, -1)>>
        ELSE IF t = "c2" THEN <<Payload(2, "raw", 10, -1)>>
        ELSE <<>>]

InitWindow ==
    Established(WorkloadWindow,
                Bounded(HandshakeReceived, 0, 0))

SpecWindow == InitWindow /\ [][SendSteps]_vars

(***************************************************************************)
(* Payloads of every kind and of lengths around the chunk size, one        *)
(* send_msg call on an established connection.                             *)
(***************************************************************************)
MaxPayloadRecv == 3

PayloadKinds == {"raw", "obj", "obj_ts", "scalar"}
PayloadLens == {0, 10, 1000, 1024, 1025, 2048, 3000}

PayloadInputs ==
    {Payload(1, k, n, IF k = "obj_ts" THEN 0 ELSE -1) :
        k \in PayloadKinds, n \in PayloadLens}
    \ {Payload(1, k, 0, IF k = "obj_ts" THEN 0 ELSE -1) :
        k \in PayloadKinds \ {"raw"}}

InitPayload ==
    \E p \in PayloadInputs :
        Established([t \in Threads |-> IF t = "c1" THEN <<p>> ELSE <<>>],
                    Bounded(HandshakeReceived + MaxPayloadRecv, 0, 0))

SpecPayload == InitPayload /\ [][NextSend]_vars

(***************************************************************************)
(* Liveness: an established connection, both endpoints running for ever,   *)
(* one send_msg call, and a network that keeps every datagram ever sent    *)
(* available: a datagram stays receivable as if it were re-emitted for     *)
(* ever, and fairness has each kind of datagram received again and again.  *)
(* The receive loops are not bounded here; the counters wrap above         *)
(* LiveCount and the record of deliveries stops at MaxDeliver entries.     *)
(***************************************************************************)
LiveCount == 1
MaxDeliver == 2

InitLive ==
    Established(Workload,
                Limits(2 * LiveCount + 1, 0, 0, MaxSeq, LiveCount, LiveCount,
                       MaxDeliver))

\* any statement of the send_msg call of thread t
ThreadStep(t) ==
    \/ send_msg_call(t)
    \/ send_msg_handshake(t)
    \/ send_msg_window(t)
    \/ send_msg_assign(t)
    \/ send_msg_load(t)
    \/ send_msg_store(t)
    \/ send_msg_append(t)
    \/ send_msg_emit(t)

PacketKinds ==
    {FLAG_DATA, FLAG_ACK, FLAG_SYN, FlagOr(FLAG_SYN, FLAG_ACK), FLAG_FIN,
     FlagOr(FLAG_FIN, FLAG_ACK)}

\* e's receive loop processes a datagram with these flags and this seq
ReceiveOf(e, flags, seq) ==
    \E pkt \in {p \in net : p.dst = e /\ p.flags = flags /\ p.seq = seq} :
        ReceivePacket(e, pkt)

Fairness ==
    /\ \A t \in Threads : WF_vars(ThreadStep(t))
    /\ \A e \in Endpoints : \A flags \in PacketKinds :
           \A seq \in 0..MaxSeq : WF_vars(ReceiveOf(e, flags, seq))

SpecLive == InitLive /\ [][NextSend]_vars /\ Fairness

(***************************************************************************)
(* Shutdown: on an established connection either endpoint may stop while   *)
(* application threads on both sides call send_msg.                        *)
(***************************************************************************)
MaxStopRecv == 2

WorkloadStop ==
    [t \in Threads |->
        IF t = "c1" THEN <<Payload(1, "raw", 10, -1)>>
        ELSE IF t = "s1" THEN <<Payload(2, "raw", 10, -1)>>
        ELSE <<>>]

InitStop ==
    Established(WorkloadStop, Bounded(HandshakeReceived + MaxStopRecv, 0, 0))

NextStop ==
    \/ SendSteps
    \/ \E e \in Endpoints : Receive(e)
    \/ \E e \in Endpoints : stop(e)

SpecStop == InitStop /\ [][NextStop]_vars

(***************************************************************************)
(* Shutdown under a full window: one thread sends a payload of more chunks *)
(* than the window holds and either endpoint may stop.  Every thread and   *)
(* both receive loops keep being scheduled.                                *)
(***************************************************************************)
WorkloadCancel ==
    [t \in Threads |->
        IF t = "c1"
        THEN <<Payload(1, "raw", (MAX_WINDOW_SIZE + 1) * MAX_PAYLOAD_SIZE,
                       -1)>>
        ELSE <<>>]

MaxCancelRecv == 1

InitCancel ==
    Established(WorkloadCancel,
                Bounded(HandshakeReceived + MaxCancelRecv, 0, 0))

NextCancel ==
    \/ SendSteps
    \/ \E e \in Endpoints : Receive(e)
    \/ \E e \in Endpoints : stop(e)

SpecCancel == InitCancel /\ [][NextCancel]_vars /\ Fairness

(***************************************************************************)
(* A fair-lossy channel: a datagram in transit may be dropped, and one     *)
(* that stays in transit is eventually received.  The handshake from two   *)
(* fresh endpoints, the clock running, nobody stopping.                    *)
(***************************************************************************)
MaxLossTicks == 2
MaxLossSeq == 1     \* each endpoint processes one SYN or SYN|ACK

\* sendto() of line 261 is UDP: the datagram may never arrive
Lose(pkt) ==
    /\ pkt \in net
    /\ net' = net \ {pkt}
    /\ UNCHANGED <<limits, submitted, running, is_server, socket,
                   on_new_connection_callback, connections, stats, clock,
                   threads, todo, delivered, disconnects, assigned, errors,
                   app>>

InitLossy ==
    /\ InitEndpoints
    /\ todo = Workload
    /\ limits = Limits(2 * LiveCount + 1, 0, MaxLossTicks, MaxLossSeq,
                       LiveCount, LiveCount, MaxDeliver)

\* lines 189-193, 207-211 and 509-511: time passes for whoever is waiting
\* for a deadline, a thread in one of the two timed waits or the timer
\* loop with an unacknowledged datagram, until that deadline has expired
TickWaiting ==
    /\ \/ \E t \in Threads :
             /\ threads[t].pc \in {"connect_wait", "handshake_wait"}
             /\ clock - threads[t].start_time <= HANDSHAKE_TIMEOUT
       \/ \E e \in Endpoints :
             /\ connections[e] # None
             /\ \E i \in DOMAIN connections[e].send_window :
                   clock - connections[e].send_window[i].time
                       <= connections[e].rto
    /\ Tick

\* the datagram dropped is the first of the handshake, the SYN
NextLossy ==
    \/ NextReplay
    \/ \E e \in Endpoints : _timer_loop(e)
    \/ TickWaiting
    \/ \E pkt \in {p \in net : p.flags = FLAG_SYN} : Lose(pkt)

\* Every run sends finitely many datagrams (the clock is bounded), so a
\* datagram that is not dropped stays receivable and weak fairness of the
\* receive loops is what the fair-lossy channel guarantees.
SpecLossy ==
    /\ InitLossy /\ [][NextLossy]_vars
    /\ Fairness
    /\ \A e \in Endpoints : WF_vars(_timer_loop(e))
    /\ \A t \in Threads : WF_vars(connect_return(t))
    /\ WF_vars(on_new_connection("s")) /\ WF_vars(start("s"))
    /\ WF_vars(TickWaiting)

(***************************************************************************)
(* Shutdown over the fair-lossy channel, on an established connection.     *)
(***************************************************************************)
\* nothing is being sent when the endpoints stop
WorkloadNone == [t \in Threads |-> <<>>]

InitLossyStop ==
    Established(WorkloadNone,
                Limits(2 * LiveCount + 1, 0, 0, MaxSeq, LiveCount, LiveCount,
                       MaxDeliver))

\* the datagrams of the close, FIN and FIN|ACK, are the ones dropped
NextLossyStop ==
    \/ \E e \in Endpoints : Receive(e)
    \/ \E e \in Endpoints : stop(e)
    \/ \E pkt \in {p \in net : HasFlag(p.flags, FLAG_FIN)} : Lose(pkt)

SpecLossyStop == InitLossyStop /\ [][NextLossyStop]_vars /\ Fairness

(***************************************************************************)
(* RTT samples.  The receive thread of "c" runs the RTT update of          *)
(* _handle_ack statement by statement, without the lock, for              *)
(* acknowledgements of datagrams whose send times are recorded; the timer  *)
(* thread and the application may look at the connection in between.       *)
(***************************************************************************)
MaxRttSamples == 3
RttSamples == {0, 40, 1000, 20000, 60000}
RxThread == "rx"

InitRtt ==
    /\ limits = Bounded(0, 0, 0)
    /\ todo = WorkloadNone
    /\ running = [e \in Endpoints |-> TRUE]
    /\ is_server = [e \in Endpoints |-> e = "s"]
    /\ socket = [e \in Endpoints |-> TRUE]
    /\ on_new_connection_callback = [e \in Endpoints |-> e = "s"]
    /\ connections =
           [e \in Endpoints |->
               IF e = "c"
               THEN [Connection("s", "c", 0) EXCEPT
                        !.packet_times = [k \in 1..MaxRttSamples |-> 0]]
               ELSE None]
    /\ stats = [e \in Endpoints |-> NewStats]
    /\ net = {}
    /\ clock = 0
    /\ threads = [t \in Threads \cup {RxThread} |-> IdleThread]
    /\ delivered = [e \in Endpoints |-> <<>>]
    /\ disconnects = [e \in Endpoints |-> 0]
    /\ submitted = [e \in Endpoints |-> <<>>]
    /\ assigned = [e \in Endpoints |-> <<>>]
    /\ errors = [e \in Endpoints |-> {}]
    /\ app = [e \in Endpoints |-> NewApp]

\* _handle_ack, lines 428-430, and _update_rtt up to line 125
_handle_ack_rtt(ack, rtt) ==
    /\ threads[RxThread].pc = "idle"
    /\ ack \in DOMAIN connections["c"].packet_times
    /\ connections' = [connections EXCEPT
                          !["c"] = _update_rtt_estimate(@, rtt)]
    /\ threads' = [threads EXCEPT ![RxThread].pc = "clamp",
                                  ![RxThread].tmp = ack]
    /\ UNCHANGED <<limits, submitted, running, is_server, socket,
                   on_new_connection_callback, stats, net, clock, todo,
                   delivered, disconnects, assigned, errors, app>>

\* line 126, then line 431 of _handle_ack
_handle_ack_clamp ==
    /\ threads[RxThread].pc = "clamp"
    /\ connections' = [connections EXCEPT
                          !["c"] = [_update_rtt_clamp(@) EXCEPT
                                       !.packet_times =
                                           DictDel(@, threads[RxThread].tmp)]]
    /\ threads' = [threads EXCEPT ![RxThread] = IdleThread]
    /\ UNCHANGED <<limits, submitted, running, is_server, socket,
                   on_new_connection_callback, stats, net, clock, todo,
                   delivered, disconnects, assigned, errors, app>>

NextRtt ==
    \/ \E ack \in 1..MaxRttSamples : \E rtt \in RttSamples :
           _handle_ack_rtt(ack, rtt)
    \/ _handle_ack_clamp

SpecRtt == InitRtt /\ [][NextRtt]_vars

(***************************************************************************)
(* The handshake with each of its datagrams processed once: an endpoint    *)
(* that has answered a SYN or a SYN|ACK processes no other.  Then one       *)
(* message in each direction.                                              *)
(***************************************************************************)
MaxHandshakeRecv == 5

\* seq = 1: a SYN or SYN|ACK is processed only while next_seq is 0
InitHandshake ==
    /\ InitEndpoints
    /\ todo = WorkloadStop
    /\ limits = Limits(MaxHandshakeRecv, 0, 0, 1, MaxCount, MaxBytes,
                       MaxCount)

SpecHandshake == InitHandshake /\ [][NextReplay]_vars

(***************************************************************************)
(* Foreign datagrams.  recvfrom() takes whatever arrives on the port: next *)
(* to the datagrams the two endpoints sent, each receive loop is handed    *)
(* well-formed datagrams (checksum correct) with flag bytes, sequence and  *)
(* acknowledgement numbers nobody sent.                                    *)
(***************************************************************************)
MaxInjectRecv == 3
MaxInjectSeq == 1

InjectFlags ==
    {0, FLAG_RST, FlagOr(FLAG_DATA, FLAG_ACK), FlagOr(FLAG_SYN, FLAG_FIN),
     FLAG_ACK}

Forged(e) ==
    {_create_header(flags, seq, ack, 0, 0, Empty, Peer(e), e) :
        flags \in InjectFlags, seq \in 0..MaxInjectSeq,
        ack \in 0..MaxInjectSeq}

Inject(e) == \E pkt \in Forged(e) : ReceivePacket(e, pkt)

InitInject ==
    /\ InitEndpoints
    /\ todo = WorkloadNone
    /\ limits = Bounded(MaxInjectRecv, 0, 0)

\* the endpoints are set up and connect; no application data is sent
NextInject ==
    \/ \E e \in Endpoints : on_new_connection(e)
    \/ \E e \in Endpoints : start(e)
    \/ \E e \in Endpoints : connect(e)
    \/ \E t \in Threads : connect_return(t)
    \/ \E e \in Endpoints : Receive(e)
    \/ \E e \in Endpoints : Inject(e)

SpecInject == InitInject /\ [][NextInject]_vars

(***************************************************************************)
(* Acknowledgements: one payload of two chunks on an established           *)
(* connection, under a network that reorders and duplicates.               *)
(***************************************************************************)
MaxAckRecv == 4

WorkloadTwoChunks ==
    [t \in Threads |->
        IF t = "c1" THEN <<Payload(1, "raw", MAX_PAYLOAD_SIZE + 1, -1)>>
        ELSE <<>>]

InitAck ==
    Established(WorkloadTwoChunks,
                Bounded(HandshakeReceived + MaxAckRecv, 0, 0))

SpecAck == InitAck /\ [][NextSend]_vars

(***************************************************************************)
(* The retransmission timer: one payload of two chunks on an established   *)
(* connection, the clock advancing between any two steps, the timer loop   *)
(* running, and a few datagrams (ACKs among them) processed.               *)
(***************************************************************************)
MaxTimerRecv == 1
MaxTimerTicks == 2

InitTimer ==
    Established(WorkloadTwoChunks,
                Bounded(HandshakeReceived + MaxTimerRecv, 0, MaxTimerTicks))

NextTimer ==
    \/ NextSend
    \/ \E e \in Endpoints : _timer_loop(e)
    \/ Tick

SpecTimer == InitTimer /\ [][NextTimer]_vars

(***************************************************************************)
(* Waiting for the handshake: two fresh endpoints, an application thread   *)
(* on each side calling send_msg as soon as it holds a connection, the     *)
(* clock advancing between any two steps and the timer loop running.       *)
(***************************************************************************)
MaxWaitRecv == 2
MaxWaitTicks == 1

InitWait ==
    /\ InitEndpoints
    /\ todo = WorkloadStop
    /\ limits = Bounded(MaxWaitRecv, 0, MaxWaitTicks)

NextWait ==
    \/ NextReplay
    \/ \E e \in Endpoints : _timer_loop(e)
    \/ Tick

SpecWait == InitWait /\ [][NextWait]_vars

(***************************************************************************)
(* Sending from a callback.  The on_message callback of "s" answers a      *)
(* payload with send_msg, as the echo test and the chat server do.  The    *)
(* callback runs on the receive-loop thread of "s": here thread "s1" is    *)
(* that thread, the statements of its send_msg are the ones of any other   *)
(* caller, and the loop reads no datagram until the callback has returned  *)
(* and _handle_data has finished.  todo["s1"] holds the answers the        *)
(* callback will send.  The network duplicates DATA and ACK datagrams.     *)
(***************************************************************************)
MaxEchoRecv == 3

LoopThread == "s1"

\* the answer is one chunk, or one chunk more than the window holds
WorkloadEcho ==
    {[t \in Threads |->
         IF t = "c1" THEN <<Payload(1, "raw", 10, -1)>>
         ELSE IF t = LoopThread THEN <<Payload(2, "raw", len, -1)>>
         ELSE <<>>] :
       len \in {10, (MAX_WINDOW_SIZE + 1) * MAX_PAYLOAD_SIZE}}

InitEcho ==
    \E work \in WorkloadEcho :
        Established(work, Bounded(HandshakeReceived + MaxEchoRecv, 0, 0))

\* lines 443-446 have run for the datagram with seq = expected_seq and
\* line 447 has not: the callback was invoked and has not returned, or
\* _handle_data has not gone on yet
HandlerPending ==
    Len(delivered["s"]) >= connections["s"].expected_seq

\* lines 281-321 and 438-446 for an in-order DATA datagram: the loop counts
\* it, finds the connection and enters the callback, which calls send_msg
\* (lines 200-207)
on_message_callback(pkt) ==
    LET e == "s"
        conn == connections[e]
        reply == Head(todo[LoopThread])
    IN
    /\ running[e] /\ socket[e] /\ is_server[e]
    /\ threads[LoopThread].pc = "idle" /\ ~HandlerPending
    /\ todo[LoopThread] # <<>>
    /\ stats["c"].packets_received + stats["s"].packets_received
           < limits.recv
    /\ PacketLen(pkt) >= HEADER_SIZE /\ _verify_checksum(pkt)
    /\ IsKnownPeer(conn, pkt.src)
    /\ pkt.flags = FLAG_DATA
    /\ pkt.seq = conn.expected_seq
    /\ conn.on_message_callback
    /\ ~NotActive(e)
    /\ connections' = [connections EXCEPT ![e].last_activity = clock]
    /\ stats' = [stats EXCEPT ![e] = CountReceived(@, pkt)]
    /\ delivered' = [delivered EXCEPT ![e] = Append(@, pkt.data)]
    /\ todo' = [todo EXCEPT ![LoopThread] = Tail(@)]
    /\ submitted' = [submitted EXCEPT ![e] = Append(@, reply)]
    /\ threads' = [threads EXCEPT ![LoopThread].pc = "handshake_wait",
                                  ![LoopThread].data = Whole(reply),
                                  ![LoopThread].start_time = clock]
    /\ UNCHANGED <<limits, running, is_server, socket,
                   on_new_connection_callback, net, clock, disconnects,
                   assigned, errors, app>>

\* lines 447-476 once the callback has returned: expected_seq, the
\* counter, the latency sample, the buffered datagrams and the ACK
_handle_data_resume ==
    LET e == "s"
        data == delivered[e][Len(delivered[e])]
        d1 == [Effect(connections[e]) EXCEPT !.conn.expected_seq = @ + 1,
                                             !.msgs = @ + 1]
        d2 == IF JsonKind(data) = "obj_ts"
              THEN [d1 EXCEPT !.lat = Append(@, clock - data.p.stamp)]
              ELSE d1
        d3 == DrainBuffer(d2)
        eff == _send_packet_to(d3, FLAG_ACK, d3.conn.next_seq,
                               d3.conn.expected_seq, Empty, clock, socket[e])
    IN
    /\ HandlerPending /\ threads[LoopThread].pc = "idle"
    /\ connections' = [connections EXCEPT ![e] = eff.conn]
    /\ stats' = [stats EXCEPT ![e] = CountEffect(@, eff)]
    /\ net' = net \cup Range(eff.out)
    /\ delivered' = [delivered EXCEPT ![e] = @ \o eff.deliv]
    /\ UNCHANGED <<limits, submitted, running, is_server, socket,
                   on_new_connection_callback, clock, threads, todo,
                   disconnects, assigned, errors, app>>

\* the statements of the send_msg the callback called
CallbackStep ==
    \/ send_msg_handshake(LoopThread)
    \/ send_msg_window(LoopThread)
    \/ send_msg_assign(LoopThread)
    \/ send_msg_load(LoopThread)
    \/ send_msg_store(LoopThread)
    \/ send_msg_append(LoopThread)
    \/ send_msg_emit(LoopThread)

\* an iteration of e's receive loop on a DATA or ACK datagram; at "s" the
\* loop is free only when it is not inside _handle_data or the callback
ReceiveEcho(e, flags, seq) ==
    /\ e = "s" => threads[LoopThread].pc = "idle" /\ ~HandlerPending
    /\ \E pkt \in {p \in net : p.dst = e /\ p.flags = flags /\ p.seq = seq} :
          /\ ~(/\ e = "s" /\ flags = FLAG_DATA /\ todo[LoopThread] # <<>>
               /\ pkt.seq = connections[e].expected_seq)
          /\ ReceivePacket(e, pkt)

NextEcho ==
    \/ ThreadStep("c1")
    \/ \E pkt \in net : pkt.dst = "s" /\ on_message_callback(pkt)
    \/ CallbackStep
    \/ _handle_data_resume
    \/ \E e \in Endpoints : \E flags \in {FLAG_DATA, FLAG_ACK} :
          \E seq \in 0..(MAX_WINDOW_SIZE + 1) : ReceiveEcho(e, flags, seq)

\* every thread keeps running, and a datagram that was sent stays
\* receivable: the peer's acknowledgements keep arriving
FairnessEcho ==
    /\ WF_vars(ThreadStep("c1"))
    /\ WF_vars(CallbackStep)
    /\ WF_vars(_handle_data_resume)
    /\ WF_vars(\E pkt \in net : pkt.dst = "s" /\ on_message_callback(pkt))
    /\ \A e \in Endpoints : \A flags \in {FLAG_DATA, FLAG_ACK} :
          \A seq \in 0..(MAX_WINDOW_SIZE + 1) :
              WF_vars(ReceiveEcho(e, flags, seq))

SpecEcho == InitEcho /\ [][NextEcho]_vars /\ FairnessEcho

(***************************************************************************)
(* Acknowledgements of the listener's data: on an established connection   *)
(* an application thread of "s" sends one payload, and the network         *)
(* duplicates and reorders what was sent, the datagrams of the handshake   *)
(* included.                                                               *)
(***************************************************************************)
MaxSoundRecv == 3

WorkloadListener ==
    [t \in Threads |->
        IF t = "s1" THEN <<Payload(2, "raw", 10, -1)>> ELSE <<>>]

InitSound ==
    Established(WorkloadListener,
                Bounded(HandshakeReceived + MaxSoundRecv, 0, 0))

SpecSound == InitSound /\ [][NextSend]_vars

(***************************************************************************)
(* The handshake and the close together: two fresh endpoints, application  *)
(* threads on both sides sending, either endpoint stopping at any moment,  *)
(* and the network duplicating and reordering every datagram sent.         *)
(***************************************************************************)
MaxAgreeRecv == 4

InitAgree ==
    /\ InitEndpoints
    /\ todo = WorkloadStop
    /\ limits = Bounded(MaxAgreeRecv, 0, 0)

NextAgree ==
    \/ NextReplay
    \/ \E e \in Endpoints : stop(e)

SpecAgree == InitAgree /\ [][NextAgree]_vars

(***************************************************************************)
(* Properties.                                                             *)
(***************************************************************************)
IsPrefix(a, b) ==
    /\ Len(a) <= Len(b)
    /\ \A i \in 1..Len(a) : a[i] = b[i]

\* the chunks e's send_msg calls emitted, in the order of emission
ChunksSent(e) == [i \in 1..Len(assigned[e]) |-> assigned[e][i][2]]

\* how many times x occurs in the sequence q
Count(q, x) == Cardinality({i \in DOMAIN q : q[i] = x})

\* C1: the payloads handed to on_message at an endpoint are, in order, the
\* chunks its peer sent: at every moment the delivered list is a prefix of
\* the list of chunks the peer emitted, whatever the network lost,
\* reordered or duplicated.
C1_InOrderDelivery ==
    \A e \in Endpoints : IsPrefix(delivered[e], ChunksSent(Peer(e)))

\* C2: no step hands to on_message a payload that was handed to it before,
\* whichever datagram (SYN, SYN|ACK, ACK, DATA, FIN) the network replays.
C2_NoRedelivery ==
    [][\A e \in Endpoints :
          \A i \in DOMAIN delivered'[e] :
              i > Len(delivered[e])
                  => Count(delivered'[e], delivered'[e][i]) = 1]_vars

\* C6: once the handshake has set expected_seq to 1 it never decreases: a
\* step changes it by exactly the number of payloads that step consumed in
\* sequence (messages_received), and no other step changes it.
C6_ExpectedSeqSteps ==
    [][\A e \in Endpoints :
          connections[e] # None /\ connections[e].expected_seq >= 1
              => connections'[e].expected_seq - connections[e].expected_seq
                     = stats'[e].messages_received
                           - stats[e].messages_received]_vars

\* a datagram of full header size whose checksum field is not the digest of
\* its other fields and payload
FailsVerification(pkt) ==
    /\ PacketLen(pkt) >= HEADER_SIZE
    /\ pkt.checksum # <<VERSION, pkt.flags, pkt.conn_id, pkt.seq, pkt.ack,
                        pkt.length, pkt.data>>

\* C8: a receive-loop iteration on a datagram that fails verification adds
\* one to checksum_errors of that endpoint and does nothing else: no
\* connection record is created or changed, no callback runs, nothing is
\* sent, no other counter moves.
C8_DamagedDatagramDropped ==
    [][\A e \in Endpoints : \A pkt \in Arrivals(e) :
          /\ FailsVerification(pkt)
          /\ _receive_loop_server(e, pkt) \/ _receive_loop_client(e, pkt)
          => /\ stats' = [stats EXCEPT ![e].checksum_errors = @ + 1]
             /\ UNCHANGED <<connections, net, delivered, disconnects, app,
                            running, socket, threads, errors>>]_vars

\* a damaged datagram was counted at the listening endpoint, which still
\* has no connection record
C8_Witness ==
    /\ stats["s"].checksum_errors = 1
    /\ connections["s"] = None
    /\ \E pkt \in Arrivals("s") : FailsVerification(pkt)

\* C4: the send window of a connection never holds more than
\* MAX_WINDOW_SIZE entries, however many threads call send_msg.
C4_WindowBound ==
    \A e \in Endpoints :
        connections[e] # None
            => Len(connections[e].send_window) <= MAX_WINDOW_SIZE

\* C5: no two chunks an endpoint emitted carry the same sequence number.
C5_NoSeqReuse ==
    \A e \in Endpoints : \A i, j \in DOMAIN assigned[e] :
        i # j => assigned[e][i][1] # assigned[e][j][1]

\* the entries of window with sequence number a or above
KeepFrom(window, a) ==
    LET NotBelow(w) == w.seq >= a IN SelectSeq(window, NotBelow)

\* C7: processing an ACK whose acknowledgment field is a removes from the
\* send window every entry with sequence number below a and no other
\* entry.
C7_AckRemovesBelow ==
    [][\A e \in Endpoints :
          \A pkt \in {p \in net : /\ p.dst = e
                                  /\ HasFlag(p.flags, FLAG_ACK)
                                  /\ ~HasFlag(p.flags, FLAG_SYN)} :
              /\ connections[e] # None
              /\ _receive_loop_server(e, pkt) \/ _receive_loop_client(e, pkt)
              => connections'[e].send_window
                     = KeepFrom(connections[e].send_window, pkt.ack)]_vars

\* the payload p cut at every MAX_PAYLOAD_SIZE bytes
Pieces(p) ==
    [i \in 1..((p.len + MAX_PAYLOAD_SIZE - 1) \div MAX_PAYLOAD_SIZE) |->
        [p |-> p, lo |-> (i - 1) * MAX_PAYLOAD_SIZE,
         hi |-> Min(i * MAX_PAYLOAD_SIZE, p.len)]]

\* the send_msg calls made at e have all returned
CallsReturned(e) ==
    \A t \in Threads : ThreadEp(t) = e => threads[t].pc = "idle"

\* C9: send_msg accepts every payload, JSON or not, and what the peer's
\* on_message receives for the call is the submitted payload, byte for
\* byte: no call fails on the payload's content, and the chunks delivered
\* are, in order, the pieces of the payload that was submitted.
C9_PayloadTransparency ==
    \A e \in Endpoints :
        /\ "TypeError" \notin errors[e]
        /\ Len(submitted[e]) = 1
               => IsPrefix(delivered[Peer(e)], Pieces(submitted[e][1]))

\* C10: a send_msg call with a payload of L bytes emits ceil(L / 1024) DATA
\* packets of 1..1024 bytes each, with consecutive sequence numbers in
\* payload order, and their payloads concatenated are the payload
\* submitted.
C10_Chunking ==
    \A e \in Endpoints :
        Len(submitted[e]) = 1 /\ CallsReturned(e)
            => /\ Len(assigned[e])
                      = (submitted[e][1].len + MAX_PAYLOAD_SIZE - 1)
                            \div MAX_PAYLOAD_SIZE
               /\ \A i \in DOMAIN assigned[e] :
                      /\ BLen(assigned[e][i][2]) \in 1..MAX_PAYLOAD_SIZE
                      /\ assigned[e][i][1] = assigned[e][1][1] + i - 1
               /\ ChunksSent(e) = Pieces(submitted[e][1])

\* C3: on an established connection whose endpoints keep running, under a
\* fair channel, every chunk send_msg emitted is eventually handed to the
\* peer's on_message, and never more than once.
C3_ReliableDelivery ==
    \A e \in Endpoints :
        /\ [](\A i \in DOMAIN assigned[e] :
                 Count(delivered[Peer(e)], assigned[e][i][2]) <= 1)
        /\ (Len(assigned[e]) >= 1)
               ~> (/\ Len(assigned[e]) >= 1
                   /\ Count(delivered[Peer(e)], assigned[e][1][2]) >= 1)

\* C11: a send_msg call made while the endpoint is not running, or after a
\* FIN from the peer closed the connection, raises at once: no sequence
\* number is taken, nothing is appended to the send window, nothing is
\* sent and messages_sent (like every other counter) keeps its value.
C11_SendFailsWhenInactive ==
    [][\A t \in Threads :
          /\ send_msg_call(t)
          /\ ~running[ThreadEp(t)] \/ ~connections[ThreadEp(t)].connected
          => /\ "Connection not active" \in errors'[ThreadEp(t)]
             /\ threads'[t].pc = "idle"
             /\ UNCHANGED <<connections, stats, net, assigned>>]_vars

\* send_msg was refused at the listening endpoint, which still runs, after
\* the peer's FIN closed the connection
C11_Witness ==
    /\ running["s"]
    /\ ~connections["s"].connected
    /\ "Connection not active" \in errors["s"]
    /\ submitted["s"] # <<>>

\* C13: the first stop() of a running endpoint clears running and sends
\* exactly one FIN (seq = next_seq, ack = 0, no payload) on its connection
\* if that is still connected, and none otherwise; a further stop() changes
\* nothing and sends nothing; every send_msg call made after it fails.
C13_StopIdempotent ==
    [][\A e \in Endpoints :
          /\ stop(e)
             => IF running[e]
                THEN /\ ~running'[e]
                     /\ IF connections[e] # None /\ connections[e].connected
                        THEN /\ Cardinality(net' \ net) = 1
                             /\ \A p \in net' \ net :
                                  /\ p.flags = FLAG_FIN
                                  /\ p.seq = connections[e].next_seq
                                  /\ p.ack = 0
                                  /\ p.length = 0 /\ BLen(p.data) = 0
                                  /\ p.src = e /\ p.dst = Peer(e)
                        ELSE net' = net
                ELSE UNCHANGED vars
          /\ \A t \in Threads :
                send_msg_call(t) /\ ThreadEp(t) = e /\ app[e].stopped
                    => /\ "Connection not active" \in errors'[e]
                       /\ threads'[t].pc = "idle"
                       /\ UNCHANGED <<connections, stats, net>>]_vars

\* "c" has stopped, its one FIN is on the network, and a send_msg call made
\* afterwards was refused
C13_Witness ==
    /\ app["c"].stopped /\ ~running["c"]
    /\ Cardinality({p \in net : p.src = "c" /\ p.flags = FLAG_FIN}) = 1
    /\ "Connection not active" \in errors["c"]

\* C12: a send_msg call that is waiting for room in the send window or for
\* the handshake when its endpoint is stopped eventually returns; none
\* stays blocked for ever after stop().
C12_ShutdownCancelsSend ==
    \A t \in Threads :
        (/\ threads[t].pc \in {"window_wait", "handshake_wait"}
         /\ ~running[ThreadEp(t)])
            ~> (threads[t].pc = "idle")

\* C14: connect() on an endpoint running in listening mode, and start() on
\* an endpoint running in connecting mode, each raise an error and leave
\* the endpoint's mode, socket, threads and connections as they were.
C14_ModeSwitchRaises ==
    [][\A e \in Endpoints :
          \/ connect(e) /\ running[e] /\ is_server[e]
          \/ start(e) /\ running[e] /\ ~is_server[e]
          => /\ "Already running" \in errors'[e]
             /\ UNCHANGED <<running, is_server, socket, threads,
                            connections>>]_vars

\* C15: after connect(), under a fair-lossy channel and with both endpoints
\* running, the connection eventually becomes established on the initiator
\* and on the responder, whichever handshake datagram is dropped.
C15_HandshakeSurvivesLoss ==
    (connections["c"] # None)
        ~> (/\ connections["c"] # None
            /\ connections["c"].handshake_complete
            /\ connections["s"] # None
            /\ connections["s"].handshake_complete)

\* C16: when an endpoint stops while its peer still holds the connection
\* open, then under a fair-lossy channel the peer's on_disconnect callback
\* is eventually invoked and the peer's connection is closed to further
\* send_msg calls (unless the peer has stopped itself).
C16_ShutdownReachesPeer ==
    \A e \in Endpoints :
        (/\ app[e].stopped
         /\ running[Peer(e)]
         /\ connections[Peer(e)].connected
         /\ connections[Peer(e)].on_disconnect_callback)
            ~> (\/ ~running[Peer(e)]
                \/ /\ disconnects[Peer(e)] >= 1
                   /\ ~connections[Peer(e)].connected)

\* C17: in every reachable state of every connection, from its creation
\* and whatever non-negative RTT samples arrive, the retransmission timeout
\* lies between MIN_RTO (0.1 s) and MAX_RTO (30 s).
C17_RtoBounds ==
    \A e \in Endpoints :
        connections[e] # None
            => /\ connections[e].rto >= MIN_RTO
               /\ connections[e].rto <= MAX_RTO

C19_HandshakeAckFields ==
    [][\A pkt \in net :
          /\ pkt.flags = FlagOr(FLAG_SYN, FLAG_ACK)
          /\ pkt.seq = 0 /\ pkt.ack = 1
          /\ _receive_loop_client("c", pkt)
          => \E p \in net' :
                /\ p.src = "c" /\ p.flags = FLAG_ACK
                /\ p.seq = 1 /\ p.ack = 1
                /\ p.length = 0 /\ BLen(p.data) = 0]_vars

\* C20: when SYN, SYN|ACK and ACK are each processed once, the responder's
\* SYN|ACK has seq = 0 and ack = 1, both endpoints end established with
\* next_seq = 1 and expected_seq = 1, and the first DATA datagram of each
\* side has sequence number 1 and is delivered by the peer in order (the
\* peer, while it expects 1, sets nothing aside as out of order).
C20_HandshakeAlignment ==
    /\ \A p \in net :
          p.flags = FlagOr(FLAG_SYN, FLAG_ACK) => p.seq = 0 /\ p.ack = 1
    /\ \A e \in Endpoints :
          /\ connections[e] # None /\ connections[e].handshake_complete
                => /\ submitted[e] = <<>> => connections[e].next_seq = 1
                   /\ assigned[Peer(e)] = <<>>
                         => connections[e].expected_seq = 1
                   /\ connections[e].expected_seq = 1
                         => /\ connections[e].receive_buffer = EmptyDict
                            /\ stats[e].out_of_order_packets = 0
          /\ assigned[e] # <<>> => assigned[e][1][1] = 1
          /\ delivered[Peer(e)] # <<>>
                => /\ assigned[e] # <<>>
                   /\ delivered[Peer(e)][1] = assigned[e][1][2]

\* both sides established, and each has sent its first DATA and had it
\* delivered by the other
C20_Witness ==
    \A e \in Endpoints :
        /\ connections[e] # None /\ connections[e].handshake_complete
        /\ assigned[e] # <<>>
        /\ delivered[e] # <<>>

\* C21: a SYN received again on an established connection is answered with
\* the same SYN|ACK (seq = 0, ack = 1) and leaves next_seq, expected_seq,
\* the send window, the receive buffer and the established flag as they
\* were.
C21_SynReceiptIdempotent ==
    [][\A pkt \in net :
          /\ pkt.flags = FLAG_SYN
          /\ connections["s"] # None
          /\ connections["s"].handshake_complete
          /\ _receive_loop_server("s", pkt)
          => /\ \A p \in net' \ net :
                   /\ p.flags = FlagOr(FLAG_SYN, FLAG_ACK)
                   /\ p.seq = 0 /\ p.ack = 1
             /\ connections'["s"].next_seq = connections["s"].next_seq
             /\ connections'["s"].expected_seq = connections["s"].expected_seq
             /\ connections'["s"].send_window = connections["s"].send_window
             /\ connections'["s"].receive_buffer
                    = connections["s"].receive_buffer
             /\ connections'["s"].handshake_complete]_vars

\* the record a receive loop works on: the one it holds or, at a listener
\* that holds none, the one it creates for the datagram
ConnBefore(e, pkt) ==
    IF connections[e] # None THEN connections[e]
    ELSE Connection(pkt.src, e, clock)

\* C22: an ACK-only datagram with ack > 0 processed on a connection that is
\* not established sets the established flag and nothing else of next_seq,
\* expected_seq, send window, receive buffer, RTT estimator and connected
\* flag, and emits nothing; with ack = 0 it does not establish it either.
C22_AckEstablishesOnly ==
    [][\A e \in Endpoints : \A pkt \in net \cup Forged(e) :
          /\ pkt.flags = FLAG_ACK
          /\ _verify_checksum(pkt)
          /\ connections[e] # None \/ is_server[e]
          /\ ~ConnBefore(e, pkt).handshake_complete
          /\ _receive_loop_server(e, pkt) \/ _receive_loop_client(e, pkt)
          => LET old == ConnBefore(e, pkt)
                 new == connections'[e]
             IN  /\ new.handshake_complete <=> pkt.ack > 0
                 /\ new.next_seq = old.next_seq
                 /\ new.expected_seq = old.expected_seq
                 /\ new.send_window = old.send_window
                 /\ new.receive_buffer = old.receive_buffer
                 /\ new.rtt_estimate = old.rtt_estimate
                 /\ new.rtt_variance = old.rtt_variance
                 /\ new.rto = old.rto
                 /\ new.packet_times = old.packet_times
                 /\ new.connected = old.connected
                 /\ net' = net
                 /\ stats'[e].packets_sent = stats[e].packets_sent]_vars

\* the listener was established by the handshake's ACK, and the initiator
\* has processed an ACK with ack = 0 while still waiting for the SYN|ACK
C22_Witness ==
    /\ connections["s"] # None /\ connections["s"].handshake_complete
    /\ connections["s"].expected_seq = 1
    /\ connections["c"] # None /\ ~connections["c"].handshake_complete
    /\ stats["c"].packets_received >= 1

\* C23: a DATA datagram whose sequence number is below expected_seq is
\* discarded: nothing is delivered, nothing is stored in the receive
\* buffer, out_of_order_packets keeps its value, and the only datagram
\* emitted is the cumulative ACK.
C23_DuplicateDataDiscarded ==
    [][\A e \in Endpoints : \A pkt \in net :
          /\ pkt.flags = FLAG_DATA
          /\ connections[e] # None
          /\ pkt.seq < connections[e].expected_seq
          /\ _receive_loop_server(e, pkt) \/ _receive_loop_client(e, pkt)
          => /\ delivered'[e] = delivered[e]
             /\ stats'[e].messages_received = stats[e].messages_received
             /\ connections'[e].receive_buffer = connections[e].receive_buffer
             /\ stats'[e].out_of_order_packets
                    = stats[e].out_of_order_packets
             /\ \A p \in net' \ net :
                   /\ p.flags = FLAG_ACK
                   /\ p.ack = connections[e].expected_seq]_vars

\* C24: in every reachable state every key of a connection's receive
\* buffer is greater than the connection's expected_seq.
C24_ReceiveBufferAhead ==
    \A e \in Endpoints :
        connections[e] # None
            => \A k \in DOMAIN connections[e].receive_buffer :
                   k > connections[e].expected_seq

\* the sequence numbers, among those the peer assigned (sent), whose chunk
\* has been handed to on_message (got)
SeqsDelivered(sent, got) ==
    {sent[i][1] : i \in {j \in DOMAIN sent : Count(got, sent[j][2]) >= 1}}

\* C25: every DATA datagram processed, in order or not, is answered with
\* exactly one ACK without payload, seq = next_seq and ack = expected_seq
\* as they stand after delivery and draining; and when that ACK carries
\* ack = n, every sequence number 1..n-1 has been delivered and n has not.
C25_CumulativeAck ==
    [][\A e \in Endpoints : \A pkt \in net :
          /\ pkt.flags = FLAG_DATA
          /\ connections[e] # None
          /\ connections[e].on_message_callback
          /\ _receive_loop_server(e, pkt) \/ _receive_loop_client(e, pkt)
          => LET new == connections'[e]
                 IsAck(p) == /\ p.src = e /\ p.flags = FLAG_ACK
                             /\ p.seq = new.next_seq
                             /\ p.ack = new.expected_seq
                             /\ p.length = 0 /\ BLen(p.data) = 0
                 done == SeqsDelivered(assigned'[Peer(e)], delivered'[e])
             IN  /\ stats'[e].packets_sent = stats[e].packets_sent + 1
                 /\ \E p \in net' : IsAck(p)
                 /\ \A p \in net' \ net : IsAck(p)
                 /\ \A k \in 1..(new.expected_seq - 1) : k \in done
                 /\ new.expected_seq \notin done]_vars

\* C26: on a FIN with sequence number q the endpoint clears the connected
\* flag, emits a FIN|ACK whose acknowledgement field is q + 1, and invokes
\* on_disconnect if it is registered.
C26_FinHandling ==
    [][\A e \in Endpoints : \A pkt \in net :
          /\ pkt.flags = FLAG_FIN
          /\ connections[e] # None
          /\ _receive_loop_server(e, pkt) \/ _receive_loop_client(e, pkt)
          => /\ ~connections'[e].connected
             /\ \E p \in net' :
                   /\ p.src = e
                   /\ p.flags = FlagOr(FLAG_FIN, FLAG_ACK)
                   /\ p.ack = pkt.seq + 1
             /\ disconnects'[e] =
                   disconnects[e]
                     + (IF connections[e].on_disconnect_callback
                        THEN 1 ELSE 0)]_vars

\* the window entries a timer pass at e finds older than the RTO
Due(e) ==
    {i \in DOMAIN connections[e].send_window :
        clock - connections[e].send_window[i].time > connections[e].rto}

\* C27: a timer pass re-emits exactly the window entries older than the
\* RTO, each with its seq, flags, ack and payload, sets the send time of
\* those entries only to the current time, adds their number to
\* packets_retransmitted, and leaves the window's length and order,
\* next_seq and expected_seq as they were; and a pass can be made whenever
\* an unacknowledged entry is older than the RTO, without a retry limit.
C27_RetransmissionStep ==
    /\ [][\A e \in Endpoints :
            _timer_loop(e)
            => LET old == connections[e]
                   new == connections'[e]
                   w == old.send_window
               IN  /\ Due(e) # {}
                   /\ net' = net \cup
                         {_create_header(w[i].flags, w[i].seq, w[i].ack,
                                         BLen(w[i].data), 0, w[i].data, e,
                                         Peer(e)) : i \in Due(e)}
                   /\ stats'[e].packets_sent
                          = stats[e].packets_sent + Cardinality(Due(e))
                   /\ stats'[e].packets_retransmitted
                          = stats[e].packets_retransmitted
                              + Cardinality(Due(e))
                   /\ Len(new.send_window) = Len(w)
                   /\ \A i \in DOMAIN w :
                         new.send_window[i] =
                             IF i \in Due(e)
                             THEN [w[i] EXCEPT !.time = clock]
                             ELSE w[i]
                   /\ new.next_seq = old.next_seq
                   /\ new.expected_seq = old.expected_seq]_vars
    /\ [](\A e \in Endpoints :
            /\ running[e] /\ socket[e]
            /\ connections[e] # None /\ connections[e].connected
            /\ Due(e) # {}
            => ENABLED _timer_loop(e))

\* "c" holds its two chunks unacknowledged and has retransmitted three
\* times: one pass found one entry due and another found both
C27_Witness ==
    /\ stats["c"].packets_retransmitted = 3
    /\ Len(connections["c"].send_window) = 2

\* C28: the send time recorded for a sequence number is written at the
\* first emission of its DATA datagram only; a timer pass that retransmits
\* it leaves every send time already recorded as it was.
C28_SendTimeNotRewritten ==
    [][\A e \in Endpoints :
          _timer_loop(e)
              => \A seq \in DOMAIN connections[e].packet_times :
                     /\ seq \in DOMAIN connections'[e].packet_times
                     /\ connections'[e].packet_times[seq]
                            = connections[e].packet_times[seq]]_vars

\* C29: only the first RTT sample of a connection sets the estimate to the
\* sample and the variance to half of it; every later sample, whatever the
\* estimate is at that moment, applies est += err / 8 and
\* var += (|err| - var) / 4.
C29_RttFirstSampleOnly ==
    [][\A ack \in 1..MaxRttSamples : \A rtt \in RttSamples :
          _handle_ack_rtt(ack, rtt)
          => LET old == connections["c"]
                 new == connections'["c"]
                 first == DOMAIN old.packet_times = 1..MaxRttSamples
                 err == rtt - old.rtt_estimate
             IN  IF first
                 THEN /\ new.rtt_estimate = rtt
                      /\ new.rtt_variance = rtt \div 2
                 ELSE /\ new.rtt_estimate = old.rtt_estimate + (err \div 8)
                      /\ new.rtt_variance =
                            old.rtt_variance
                              + ((Abs(err) - old.rtt_variance) \div 4)]_vars

LegalFlags ==
    {FLAG_SYN, FlagOr(FLAG_SYN, FLAG_ACK), FLAG_ACK, FLAG_DATA, FLAG_FIN,
     FlagOr(FLAG_FIN, FLAG_ACK)}

\* C30: a datagram that passes the integrity check and whose flags byte is
\* none of SYN, SYN|ACK, ACK, DATA, FIN, FIN|ACK is discarded: no connection
\* record is created, the sequence counters, send window, receive buffer,
\* established and connected flags keep their values, no callback runs and
\* no datagram is emitted.
C30_IllegalFlagsDiscarded ==
    [][\A e \in Endpoints : \A pkt \in Forged(e) :
          /\ pkt.flags \notin LegalFlags
          /\ _verify_checksum(pkt)
          /\ _receive_loop_server(e, pkt) \/ _receive_loop_client(e, pkt)
          => /\ connections[e] = None => connections'[e] = None
             /\ connections[e] # None =>
                   LET old == connections[e]
                       new == connections'[e]
                   IN  /\ new.next_seq = old.next_seq
                       /\ new.expected_seq = old.expected_seq
                       /\ new.send_window = old.send_window
                       /\ new.receive_buffer = old.receive_buffer
                       /\ new.handshake_complete = old.handshake_complete
                       /\ new.connected = old.connected
             /\ app'[e].accepted = app[e].accepted
             /\ delivered'[e] = delivered[e]
             /\ disconnects'[e] = disconnects[e]
             /\ net' = net
             /\ stats'[e].packets_sent = stats[e].packets_sent]_vars

\* pcs of send_msg past the wait for the handshake (lines 213-245)
PastHandshake == {"window_wait", "assign", "load", "store", "append", "emit"}

\* C31: send_msg gets past its wait, assigns a sequence number and emits a
\* DATA datagram only on an established connection, so a non-empty send
\* window implies handshake_complete; a send_msg whose connection is not
\* established ends only after more than 5 s, with the handshake-timeout
\* error, and emits and changes nothing.
C31_NoDataBeforeEstablished ==
    /\ [](\A e \in Endpoints : connections[e] # None =>
            /\ connections[e].send_window # <<>>
                  => connections[e].handshake_complete
            /\ (\E t \in Threads : ThreadEp(t) = e
                                   /\ threads[t].pc \in PastHandshake)
                  => connections[e].handshake_complete
            /\ (\E p \in net : p.src = e /\ HasFlag(p.flags, FLAG_DATA))
                  => connections[e].handshake_complete)
    /\ [][\A t \in Threads :
            /\ threads[t].pc = "handshake_wait"
            /\ ~connections[ThreadEp(t)].handshake_complete
            /\ threads'[t] # threads[t]
            => /\ clock - threads[t].start_time > HANDSHAKE_TIMEOUT
               /\ "Connection handshake timeout" \in errors'[ThreadEp(t)]
               /\ threads'[t].pc = "idle"
               /\ net' = net
               /\ connections' = connections
               /\ stats' = stats
               /\ assigned' = assigned]_vars

\* the listener's send_msg has timed out waiting for the handshake's ACK
\* while the initiator, established, has a DATA datagram in its window
C31_Witness ==
    /\ "Connection handshake timeout" \in errors["s"]
    /\ connections["c"] # None /\ connections["c"].send_window # <<>>
    /\ \E p \in net : p.src = "c" /\ p.flags = FLAG_DATA

\* C32: a send_msg called from inside an on_message callback, on the
\* receive-loop thread, always eventually returns while the endpoint runs
\* and the peer's acknowledgements keep arriving.
C32_CallbackSendReturns ==
    threads[LoopThread].pc # "idle" ~> threads[LoopThread].pc = "idle"

\* C33: a payload is handed to on_message only on a connection whose
\* handshake_complete flag is already set at the receiving endpoint.
C33_NoDeliveryBeforeEstablished ==
    [][\A e \in Endpoints :
          delivered'[e] # delivered[e]
              => /\ connections[e] # None
                 /\ connections[e].handshake_complete]_vars

\* C34: the on_disconnect callback of a connection is invoked at most
\* once, however many copies of the peer's FIN the network hands over.
C34_DisconnectOnce ==
    \A e \in Endpoints : disconnects[e] <= 1

\* C35: once a FIN has been processed on a connection (connected is
\* false), a DATA datagram that arrives on it is not delivered to
\* on_message and leaves expected_seq as it was.
C35_NoDeliveryAfterClose ==
    [][\A e \in Endpoints : \A pkt \in net :
          /\ pkt.flags = FLAG_DATA
          /\ connections[e] # None
          /\ ~connections[e].connected
          /\ _receive_loop_server(e, pkt) \/ _receive_loop_client(e, pkt)
          => /\ delivered'[e] = delivered[e]
             /\ connections'[e].expected_seq
                    = connections[e].expected_seq]_vars

\* C36: the send window of a connection is sorted by strictly increasing
\* sequence number, whatever the interleaving of concurrent send_msg
\* calls and ACK processing.
C36_WindowSorted ==
    \A e \in Endpoints :
        connections[e] # None
            => \A i, j \in DOMAIN connections[e].send_window :
                   i < j => connections[e].send_window[i].seq
                                < connections[e].send_window[j].seq

\* C37: every key of a connection's packet_times table is the sequence
\* number of an entry of its send window.
C37_PacketTimesWithinWindow ==
    \A e \in Endpoints :
        connections[e] # None
            => DOMAIN connections[e].packet_times
                   \subseteq {connections[e].send_window[i].seq :
                                 i \in DOMAIN connections[e].send_window}

\* C38: an entry leaves a sender's send window only after the peer has
\* passed its sequence number through the delivery step: every chunk an
\* endpoint has emitted is still in its send window or was delivered at
\* the peer.
C38_AckSoundness ==
    \A e \in Endpoints : \A i \in DOMAIN assigned[e] :
        \/ \E k \in DOMAIN connections[e].send_window :
              connections[e].send_window[k].seq = assigned[e][i][1]
        \/ \E k \in DOMAIN delivered[Peer(e)] :
              delivered[Peer(e)][k] = assigned[e][i][2]

\* C39: expected_seq advances past a sequence number only if that payload
\* was handed to a registered on_message callback: a DATA datagram moves
\* expected_seq by exactly the number of payloads it has delivered.
C39_AckedMeansDelivered ==
    [][\A e \in Endpoints : \A pkt \in net :
          /\ pkt.flags = FLAG_DATA
          /\ connections[e] # None
          /\ _receive_loop_server(e, pkt) \/ _receive_loop_client(e, pkt)
          => connections'[e].expected_seq - connections[e].expected_seq
                 = Len(delivered'[e]) - Len(delivered[e])]_vars

====
